---- MODULE Spec2Model ----
(***************************************************************************)
(* Model of database/puppet.go: the puppet table, the in-memory Puppet     *)
(* structs that callers hold, and the methods that read and write them.    *)
(*                                                                         *)
(* Two specifications are given.  Spec runs the methods one call at a      *)
(* time (every call returns before the next starts) over records with all  *)
(* their fields.  SpecConc runs UpdateActivityTs one storage statement at  *)
(* a time, so that calls made through different in-memory records of the   *)
(* same identity interleave; the storage serialises single statements.     *)
(***************************************************************************)
EXTENDS Integers, Sequences, FiniteSets, TLC

VARIABLES
    db,     \* the puppet table: username -> row
    rec,    \* rec[c]: the *Puppet caller c holds (nil, or the struct)
    pc,     \* pc[c]: where caller c stands inside UpdateActivityTs
    call    \* call[c]: caller c's current or last call: the method, its
            \* timestamp argument, the statements it executed, its result

vars == <<db, rec, pc, call>>

(***************************************************************************)
(* Bounds and input sets                                                   *)
(***************************************************************************)
\* largest timestamp a caller passes to UpdateActivityTs
MaxTs == 2

\* timestamps are int64: negative values are legal arguments
Times == -1 .. MaxTs

\* local-part of the identity the callers work on, and of a row that an
\* earlier run of the program may have left in the table
User == "u1"

OldUser == "u0"

\* call paths (goroutines), each holding one *Puppet; Spec runs one,
\* SpecConc runs them all
Callers == {1, 2}

SeqCallers == {1}

(***************************************************************************)
(* types.JID, restricted to the two components puppet.go reads             *)
(***************************************************************************)
DefaultUserServer == "s.whatsapp.net"

GroupServer == "g.us"

NewJID(user, server) == [User |-> user, Server |-> server]

\* the zero value of types.JID, which New() leaves in the record
EmptyJID == NewJID("", "")

\* identifiers a caller puts into a record or looks up
JIDs == {NewJID(User, DefaultUserServer), NewJID(User, GroupServer)}

(***************************************************************************)
(* sql.NullString / sql.NullInt64 / sql.NullBool: a column value           *)
(***************************************************************************)
NotNull(v) == [Valid |-> TRUE, V |-> v]

NullString == [Valid |-> FALSE, V |-> ""]

NullInt64 == [Valid |-> FALSE, V |-> 0]

NullBool == [Valid |-> FALSE, V |-> FALSE]

\* a string column holding a serialised content URI; strings that are taken
\* apart are modelled as the sequence of their parts, "" as the empty one
NullURIString == [Valid |-> FALSE, V |-> <<>>]

(***************************************************************************)
(* id.ContentURI: String() and ParseContentURI                             *)
(***************************************************************************)
EmptyContentURI == [Homeserver |-> "", FileID |-> ""]

\* ContentURI.String(): "" unless both components are set
ContentURIString(uri) ==
    IF uri.Homeserver = "" \/ uri.FileID = ""
    THEN <<>>
    ELSE <<"mxc", uri.Homeserver, uri.FileID>>

\* ParseContentURI, its error dropped: the zero URI for anything that is
\* not mxc://<homeserver>/<file id>
ParseContentURI(s) ==
    IF Len(s) = 3 /\ s[1] = "mxc" /\ s[3] # ""
    THEN [Homeserver |-> s[2], FileID |-> s[3]]
    ELSE EmptyContentURI

(***************************************************************************)
(* time.Time: the zero time, or an instant given by its Unix seconds and   *)
(* the nanoseconds within the second                                       *)
(***************************************************************************)
ZeroTime == [zero |-> TRUE, sec |-> 0, nsec |-> 0]

Instant(sec, nsec) == [zero |-> FALSE, sec |-> sec, nsec |-> nsec]

IsZero(t) == t.zero

Unix(t) == t.sec

\* time.Unix(sec, 0)
TimeUnix(sec) == Instant(sec, 0)

\* int8(x) of an int64
Int8(x) == ((x + 128) % 256) - 128

(***************************************************************************)
(* The Puppet struct                                                       *)
(***************************************************************************)
\* PuppetQuery.New(): the zero struct with both toggles on
NewPuppet ==
    [JID             |-> EmptyJID,
     Avatar          |-> "",
     AvatarURL       |-> EmptyContentURI,
     AvatarSet       |-> FALSE,
     Displayname     |-> "",
     NameQuality     |-> 0,
     NameSet         |-> FALSE,
     LastSync        |-> ZeroTime,
     CustomMXID      |-> "",
     AccessToken     |-> "",
     NextBatch       |-> "",
     EnablePresence  |-> TRUE,
     EnableReceipts  |-> TRUE,
     FirstActivityTs |-> 0,
     LastActivityTs  |-> 0]

\* a pointer to a Puppet: nil, or the struct it points to
Nil == <<>>

Ref(p) == <<p>>

\* values a caller assigns to the exported fields before Insert or Update
Profiles ==
    { [Avatar |-> "hash1",
       AvatarURL |-> [Homeserver |-> "hs", FileID |-> "abc"],
       AvatarSet |-> TRUE,
       Displayname |-> "Alice",
       NameQuality |-> 50,
       NameSet |-> FALSE,
       LastSync |-> Instant(5, 7),
       CustomMXID |-> "@alice:hs",
       AccessToken |-> "token",
       NextBatch |-> "s1",
       EnablePresence |-> FALSE,
       EnableReceipts |-> TRUE],
      [Avatar |-> "",
       AvatarURL |-> [Homeserver |-> "hs", FileID |-> ""],
       AvatarSet |-> FALSE,
       Displayname |-> "Bob",
       NameQuality |-> -3,
       NameSet |-> TRUE,
       LastSync |-> Instant(0, 0),
       CustomMXID |-> "",
       AccessToken |-> "",
       NextBatch |-> "",
       EnablePresence |-> TRUE,
       EnableReceipts |-> FALSE] }

WithFields(p, f) ==
    [p EXCEPT !.Avatar = f.Avatar, !.AvatarURL = f.AvatarURL,
              !.AvatarSet = f.AvatarSet, !.Displayname = f.Displayname,
              !.NameQuality = f.NameQuality, !.NameSet = f.NameSet,
              !.LastSync = f.LastSync, !.CustomMXID = f.CustomMXID,
              !.AccessToken = f.AccessToken, !.NextBatch = f.NextBatch,
              !.EnablePresence = f.EnablePresence,
              !.EnableReceipts = f.EnableReceipts]

(***************************************************************************)
(* Rows of the puppet table and their conversion from and to the struct    *)
(***************************************************************************)
\* the last_sync argument of Insert and Update
LastSyncTs(p) == IF ~IsZero(p.LastSync) THEN Unix(p.LastSync) ELSE 0

\* InsertRow with two of the positional arguments exchanged
InsertRowSwapped(p) ==
    [avatar            |-> NotNull(p.Avatar),
     avatar_url        |-> NotNull(ContentURIString(p.AvatarURL)),
     avatar_set        |-> NotNull(p.NameSet),
     displayname       |-> NotNull(p.Displayname),
     name_quality      |-> NotNull(p.NameQuality),
     name_set          |-> NotNull(p.AvatarSet),
     last_sync         |-> NotNull(LastSyncTs(p)),
     custom_mxid       |-> NotNull(p.CustomMXID),
     access_token      |-> NotNull(p.AccessToken),
     next_batch        |-> NotNull(p.NextBatch),
     enable_presence   |-> NotNull(p.EnablePresence),
     enable_receipts   |-> NotNull(p.EnableReceipts),
     first_activity_ts |-> NullInt64,
     last_activity_ts  |-> NullInt64]

\* the row INSERT creates: the two activity columns are not in the column
\* list and take their default, NULL
InsertRow(p) ==
    [avatar            |-> NotNull(p.Avatar),
     avatar_url        |-> NotNull(ContentURIString(p.AvatarURL)),
     avatar_set        |-> NotNull(p.AvatarSet),
     displayname       |-> NotNull(p.Displayname),
     name_quality      |-> NotNull(p.NameQuality),
     name_set          |-> NotNull(p.NameSet),
     last_sync         |-> NotNull(LastSyncTs(p)),
     custom_mxid       |-> NotNull(p.CustomMXID),
     access_token      |-> NotNull(p.AccessToken),
     next_batch        |-> NotNull(p.NextBatch),
     enable_presence   |-> NotNull(p.EnablePresence),
     enable_receipts   |-> NotNull(p.EnableReceipts),
     first_activity_ts |-> NullInt64,
     last_activity_ts  |-> NullInt64]

\* the row UPDATE ... SET leaves: twelve columns overwritten
UpdateRow(row, p) ==
    [row EXCEPT
       !.displayname     = NotNull(p.Displayname),
       !.name_quality    = NotNull(p.NameQuality),
       !.name_set        = NotNull(p.NameSet),
       !.avatar          = NotNull(p.Avatar),
       !.avatar_url      = NotNull(ContentURIString(p.AvatarURL)),
       !.avatar_set      = NotNull(p.AvatarSet),
       !.last_sync       = NotNull(LastSyncTs(p)),
       !.custom_mxid     = NotNull(p.CustomMXID),
       !.access_token    = NotNull(p.AccessToken),
       !.next_batch      = NotNull(p.NextBatch),
       !.enable_presence = NotNull(p.EnablePresence),
       !.enable_receipts = NotNull(p.EnableReceipts)]

\* a row written before the nullable columns were filled in: Scan reads
\* every column but username through a sql.Null* value
OldRow ==
    [avatar            |-> NullString,
     avatar_url        |-> NullURIString,
     avatar_set        |-> NullBool,
     displayname       |-> NullString,
     name_quality      |-> NullInt64,
     name_set          |-> NullBool,
     last_sync         |-> NullInt64,
     custom_mxid       |-> NullString,
     access_token      |-> NullString,
     next_batch        |-> NullString,
     enable_presence   |-> NullBool,
     enable_receipts   |-> NullBool,
     first_activity_ts |-> NullInt64,
     last_activity_ts  |-> NullInt64]

\* Puppet.Scan on a row that was found, into the struct p that New() made
Scan(p, username, row) ==
    [JID             |-> NewJID(username, DefaultUserServer),
     Displayname     |-> row.displayname.V,
     Avatar          |-> row.avatar.V,
     AvatarURL       |-> ParseContentURI(row.avatar_url.V),
     NameQuality     |-> Int8(row.name_quality.V),
     NameSet         |-> row.name_set.V,
     AvatarSet       |-> row.avatar_set.V,
     LastSync        |-> IF row.last_sync.V > 0
                         THEN TimeUnix(row.last_sync.V)
                         ELSE p.LastSync,
     CustomMXID      |-> row.custom_mxid.V,
     AccessToken     |-> row.access_token.V,
     NextBatch       |-> row.next_batch.V,
     EnablePresence  |-> row.enable_presence.V,
     EnableReceipts  |-> row.enable_receipts.V,
     FirstActivityTs |-> row.first_activity_ts.V,
     LastActivityTs  |-> row.last_activity_ts.V]

(***************************************************************************)
(* The statements, as the storage executes them.  ok = FALSE is a failure  *)
(* of the storage layer: the statement changes nothing and returns an      *)
(* error.                                                                  *)
(***************************************************************************)
\* INSERT INTO puppet: username is the table's key, a second row for it is
\* refused
ExecInsert(d, username, row, ok) ==
    IF ok /\ username \notin DOMAIN d
    THEN [u \in DOMAIN d \cup {username} |->
             IF u = username THEN row ELSE d[u]]
    ELSE d

InsertErr(d, username, ok) == ~ok \/ username \in DOMAIN d

\* UPDATE puppet SET <twelve columns> WHERE username=$13
ExecUpdate(d, username, p, ok) ==
    IF ok /\ username \in DOMAIN d
    THEN [d EXCEPT ![username] = UpdateRow(@, p)]
    ELSE d

\* UPDATE puppet SET last_activity_ts=$1 WHERE username=$2
ExecUpdateLastActivity(d, username, ts, ok) ==
    IF ok /\ username \in DOMAIN d
    THEN [d EXCEPT ![username].last_activity_ts = NotNull(ts)]
    ELSE d

\* ExecUpdateFirstActivity without "AND first_activity_ts is NULL"
ExecUpdateFirstActivityAlways(d, username, ts, ok) ==
    IF ok /\ username \in DOMAIN d
    THEN [d EXCEPT ![username].first_activity_ts = NotNull(ts)]
    ELSE d

\* UPDATE puppet SET first_activity_ts=$1
\*   WHERE username=$2 AND first_activity_ts is NULL
ExecUpdateFirstActivity(d, username, ts, ok) ==
    IF ok /\ username \in DOMAIN d /\ ~d[username].first_activity_ts.Valid
    THEN [d EXCEPT ![username].first_activity_ts = NotNull(ts)]
    ELSE d

\* HasCustomMXID as "custom_mxid IS NOT NULL"
HasCustomMXIDNotNull(row) == row.custom_mxid.Valid

\* the WHERE clause of GetAllWithCustomMXID: custom_mxid<>'' is not true of
\* a NULL
HasCustomMXID(row) == row.custom_mxid.Valid /\ row.custom_mxid.V # ""

\* SELECT ... WHERE username=$1, then Scan: nil when no row matches
QueryGet(d, jid) ==
    IF jid.User \in DOMAIN d
    THEN Ref(Scan(NewPuppet, jid.User, d[jid.User]))
    ELSE Nil

\* SELECT ... FROM puppet, each row scanned; the order is the storage's, so
\* the result is taken as a set
QueryGetAll(d) == {Scan(NewPuppet, u, d[u]) : u \in DOMAIN d}

QueryGetAllWithCustomMXID(d) ==
    {Scan(NewPuppet, u, d[u]) : u \in {v \in DOMAIN d : HasCustomMXID(d[v])}}

(***************************************************************************)
(* Call frames                                                             *)
(***************************************************************************)
\* a statement a call executed, and whether it returned an error
Stmt(sql, err) == [sql |-> sql, err |-> err]

Frame(op, ts, stmts, ret) == [op |-> op, ts |-> ts, stmts |-> stmts, ret |-> ret]

\* no method called yet, or the caller assigned to the record's fields since
NoCall == Frame("none", 0, <<>>, {})

\* a pointer as the set of what it points to
Pointee(ref) == {ref[i] : i \in 1 .. Len(ref)}

Idle(c) == pc[c] = "idle"

Holds(c) == rec[c] # Nil

(***************************************************************************)
(* PuppetQuery                                                             *)
(***************************************************************************)
\* puppet := pq.New()
New(c) ==
    /\ Idle(c)
    /\ rec' = [rec EXCEPT ![c] = Ref(NewPuppet)]
    /\ call' = [call EXCEPT ![c] = Frame("New", 0, <<>>, {NewPuppet})]
    /\ UNCHANGED <<db, pc>>

\* puppet.JID = jid, the caller's assignment after New()
SetJID(c, jid) ==
    /\ Idle(c) /\ Holds(c)
    /\ rec' = [rec EXCEPT ![c] = Ref([rec[c][1] EXCEPT !.JID = jid])]
    /\ call' = [call EXCEPT ![c] = NoCall]
    /\ UNCHANGED <<db, pc>>

\* the caller's assignments to the exported fields
SetFields(c, f) ==
    /\ Idle(c) /\ Holds(c)
    /\ rec' = [rec EXCEPT ![c] = Ref(WithFields(rec[c][1], f))]
    /\ call' = [call EXCEPT ![c] = NoCall]
    /\ UNCHANGED <<db, pc>>

\* puppet = pq.Get(jid); a failed query scans to nil like a missing row
Get(c, jid) ==
    /\ Idle(c)
    /\ \E ok \in BOOLEAN :
         LET got == IF ok THEN QueryGet(db, jid) ELSE Nil
         IN /\ rec' = [rec EXCEPT ![c] = got]
            /\ call' = [call EXCEPT ![c] =
                          Frame("Get", 0, <<Stmt("select", ~ok)>>, Pointee(got))]
    /\ UNCHANGED <<db, pc>>

\* pq.GetAll(); nil when the query fails
GetAll(c) ==
    /\ Idle(c)
    /\ \E ok \in BOOLEAN :
         call' = [call EXCEPT ![c] =
                    Frame("GetAll", 0, <<Stmt("select", ~ok)>>,
                          IF ok THEN QueryGetAll(db) ELSE {})]
    /\ UNCHANGED <<db, rec, pc>>

\* pq.GetAllWithCustomMXID(); nil when the query fails
GetAllWithCustomMXID(c) ==
    /\ Idle(c)
    /\ \E ok \in BOOLEAN :
         call' = [call EXCEPT ![c] =
                    Frame("GetAllWithCustomMXID", 0, <<Stmt("select", ~ok)>>,
                          IF ok THEN QueryGetAllWithCustomMXID(db) ELSE {})]
    /\ UNCHANGED <<db, rec, pc>>

(***************************************************************************)
(* Puppet.Insert, Puppet.Update                                            *)
(***************************************************************************)

\* IsUser with the comparison of the server left out
IsUserAny(jid) == TRUE

\* the guard of Insert
IsUser(jid) == jid.Server = DefaultUserServer

Insert(c) ==
    /\ Idle(c) /\ Holds(c)
    /\ LET p == rec[c][1]
       IN IF ~IsUser(p.JID)
          THEN /\ call' = [call EXCEPT ![c] = Frame("Insert", 0, <<>>, {})]
               /\ UNCHANGED db
          ELSE \E ok \in BOOLEAN :
                 /\ db' = ExecInsert(db, p.JID.User, InsertRow(p), ok)
                 /\ call' = [call EXCEPT ![c] =
                       Frame("Insert", 0,
                             <<Stmt("insert", InsertErr(db, p.JID.User, ok))>>, {})]
    /\ UNCHANGED <<rec, pc>>

Update(c) ==
    /\ Idle(c) /\ Holds(c)
    /\ LET p == rec[c][1]
       IN \E ok \in BOOLEAN :
            /\ db' = ExecUpdate(db, p.JID.User, p, ok)
            /\ call' = [call EXCEPT ![c] =
                          Frame("Update", 0, <<Stmt("update", ~ok)>>, {})]
    /\ UNCHANGED <<rec, pc>>

(***************************************************************************)
(* Puppet.UpdateActivityTs                                                 *)
(***************************************************************************)

\* Stale with the comparison left out: every timestamp is taken
StaleNever(p, ts) == FALSE

\* the early return: the record already holds a later timestamp
Stale(p, ts) == p.LastActivityTs > ts

\* puppet.LastActivityTs = signedTs
SetLastActivity(p, ts) == [p EXCEPT !.LastActivityTs = ts]

\* AfterLastActivity returning on the statement's error
AfterLastActivityAbort(p, ts, err) ==
    IF ~err /\ p.FirstActivityTs = 0
    THEN [p |-> [p EXCEPT !.FirstActivityTs = ts], pc |-> "exec_first"]
    ELSE [p |-> p, pc |-> "idle"]

\* after the last_activity_ts statement, whose error is only logged: the
\* record and the position the call goes on with
AfterLastActivity(p, ts, err) ==
    IF p.FirstActivityTs = 0
    THEN [p |-> [p EXCEPT !.FirstActivityTs = ts], pc |-> "exec_first"]
    ELSE [p |-> p, pc |-> "idle"]

\* the call up to its first statement
Begin(c, ts) ==
    /\ Idle(c) /\ Holds(c)
    /\ call' = [call EXCEPT ![c] = Frame("UpdateActivityTs", ts, <<>>, {})]
    /\ IF Stale(rec[c][1], ts)
       THEN UNCHANGED <<rec, pc>>
       ELSE /\ rec' = [rec EXCEPT ![c] = Ref(SetLastActivity(rec[c][1], ts))]
            /\ pc' = [pc EXCEPT ![c] = "exec_last"]
    /\ UNCHANGED db

\* the last_activity_ts statement and the code up to the next statement
ExecLast(c) ==
    /\ pc[c] = "exec_last"
    /\ \E ok \in BOOLEAN :
         LET p == rec[c][1]
             next == AfterLastActivity(p, call[c].ts, ~ok)
         IN /\ db' = ExecUpdateLastActivity(db, p.JID.User, p.LastActivityTs, ok)
            /\ rec' = [rec EXCEPT ![c] = Ref(next.p)]
            /\ pc' = [pc EXCEPT ![c] = next.pc]
            /\ call' = [call EXCEPT ![c].stmts =
                           Append(@, Stmt("update_last_activity", ~ok))]

\* the conditional first_activity_ts statement; its error is only logged
ExecFirst(c) ==
    /\ pc[c] = "exec_first"
    /\ \E ok \in BOOLEAN :
         LET p == rec[c][1]
         IN /\ db' = ExecUpdateFirstActivity(db, p.JID.User, p.FirstActivityTs, ok)
            /\ pc' = [pc EXCEPT ![c] = "idle"]
            /\ call' = [call EXCEPT ![c].stmts =
                           Append(@, Stmt("update_first_activity", ~ok))]
    /\ UNCHANGED rec

\* the whole call, run to its return with no other call in between
UpdateActivityTs(c, ts) ==
    /\ Idle(c) /\ Holds(c)
    /\ LET p0 == rec[c][1]
       IN IF Stale(p0, ts)
          THEN /\ call' = [call EXCEPT ![c] = Frame("UpdateActivityTs", ts, <<>>, {})]
               /\ UNCHANGED <<db, rec>>
          ELSE \E ok1 \in BOOLEAN :
                 LET p1   == SetLastActivity(p0, ts)
                     d1   == ExecUpdateLastActivity(db, p1.JID.User, p1.LastActivityTs, ok1)
                     next == AfterLastActivity(p1, ts, ~ok1)
                     s1   == <<Stmt("update_last_activity", ~ok1)>>
                 IN IF next.pc = "idle"
                    THEN /\ db' = d1
                         /\ rec' = [rec EXCEPT ![c] = Ref(next.p)]
                         /\ call' = [call EXCEPT ![c] =
                                       Frame("UpdateActivityTs", ts, s1, {})]
                    ELSE \E ok2 \in BOOLEAN :
                           /\ db' = ExecUpdateFirstActivity(
                                      d1, next.p.JID.User, next.p.FirstActivityTs, ok2)
                           /\ rec' = [rec EXCEPT ![c] = Ref(next.p)]
                           /\ call' = [call EXCEPT ![c] =
                                 Frame("UpdateActivityTs", ts,
                                       Append(s1, Stmt("update_first_activity", ~ok2)), {})]
    /\ UNCHANGED pc

(***************************************************************************)
(* The specifications                                                      *)
(***************************************************************************)
NoRows == [u \in {} |-> OldRow]

Init ==
    /\ db \in {NoRows, [u \in {OldUser} |-> OldRow]}
    /\ rec = [c \in Callers |-> Nil]
    /\ pc = [c \in Callers |-> "idle"]
    /\ call = [c \in Callers |-> NoCall]

\* one caller, one call at a time
Next ==
    \E c \in SeqCallers :
        \/ New(c)
        \/ \E jid \in JIDs : SetJID(c, jid)
        \/ \E jid \in JIDs : Get(c, jid)
        \/ GetAll(c)
        \/ GetAllWithCustomMXID(c)
        \/ Insert(c)
        \/ Update(c)
        \/ \E ts \in Times : UpdateActivityTs(c, ts)
        \/ \E f \in Profiles : SetFields(c, f)

Spec == Init /\ [][Next]_vars

\* the identity has been inserted; callers load it and report activity
InitConc ==
    /\ db = ExecInsert(NoRows, User,
                       InsertRow([NewPuppet EXCEPT
                                    !.JID = NewJID(User, DefaultUserServer)]),
                       TRUE)
    /\ rec = [c \in Callers |-> Nil]
    /\ pc = [c \in Callers |-> "idle"]
    /\ call = [c \in Callers |-> NoCall]

\* several callers; UpdateActivityTs one statement at a time
NextConc ==
    \E c \in Callers :
        \/ Get(c, NewJID(User, DefaultUserServer))
        \/ \E ts \in Times : Begin(c, ts)
        \/ ExecLast(c)
        \/ ExecFirst(c)

SpecConc == InitConc /\ [][NextConc]_vars

(***************************************************************************)
(* Properties                                                              *)
(***************************************************************************)
ActivityFrame(c) == call[c].op = "UpdateActivityTs"

\* the call of caller c executed exactly these statements, in this order,
\* each with this error outcome
Executed(c, stmts) == call[c].stmts = stmts

UserJID == NewJID(User, DefaultUserServer)

\* C1: UpdateActivityTs(t) with t <= LastActivityTs (t equal to it included,
\* and t = 0 on a freshly inserted record) writes nothing: the stored rows
\* and the record are after the call what they were before it.
C1_NotLaterIsNoOp ==
    [][\A c \in SeqCallers, ts \in Times :
         (Holds(c) /\ UpdateActivityTs(c, ts))
            => (ts <= rec[c][1].LastActivityTs => db' = db /\ rec' = rec)]_vars

\* C2: concurrent first calls for one identity: the stored first_activity_ts
\* leaves NULL once, by a conditional first-activity statement and with that
\* statement's value, and no other statement changes it afterwards.
C2_FirstActivityWrittenOnce ==
    [][\A u \in DOMAIN db :
         \/ db'[u].first_activity_ts = db[u].first_activity_ts
         \/ /\ ~db[u].first_activity_ts.Valid
            /\ \E c \in Callers :
                 /\ pc[c] = "exec_first" /\ pc'[c] = "idle"
                 /\ rec[c][1].JID.User = u
                 /\ db'[u].first_activity_ts = NotNull(rec[c][1].FirstActivityTs)
                 /\ call[c].ts = rec[c][1].FirstActivityTs]_vars

\* C2, the case: both callers ran their first call to the end, with
\* different timestamps, each executing its conditional statement without
\* error; the row holds the timestamp of one and not of the other.
C2_Witness ==
    /\ \A c \in Callers :
         /\ Idle(c) /\ Holds(c) /\ ActivityFrame(c)
         /\ Executed(c, <<Stmt("update_last_activity", FALSE),
                          Stmt("update_first_activity", FALSE)>>)
         /\ rec[c][1].FirstActivityTs = call[c].ts
    /\ call[1].ts # call[2].ts
    /\ db[User].first_activity_ts = NotNull(call[2].ts)

\* C3: in a run of UpdateActivityTs calls with increasing timestamps on a
\* stored record, a call that follows an accepted one sets LastActivityTs to
\* its timestamp and leaves FirstActivityTs, in the record and in the row,
\* as it was.
C3_FirstActivityKept ==
    [][\A c \in SeqCallers, ts \in Times :
         (/\ Holds(c)
          /\ ActivityFrame(c) /\ call[c].stmts # <<>>
          /\ rec[c][1].JID = UserJID /\ User \in DOMAIN db
          /\ ts > rec[c][1].LastActivityTs
          /\ UpdateActivityTs(c, ts))
            => /\ rec'[c][1].LastActivityTs = ts
               /\ rec'[c][1].FirstActivityTs = rec[c][1].FirstActivityTs
               /\ db'[User].first_activity_ts = db[User].first_activity_ts]_vars

\* what Get returns for the record of caller c right after its Insert
GetAfterInsert(c) == QueryGet(db, rec[c][1].JID)

InsertSucceeded(c) ==
    Holds(c) /\ call[c].op = "Insert" /\ Executed(c, <<Stmt("insert", FALSE)>>)

\* the fields that come back from storage as they went in
SameStoredFields(p, g) ==
    /\ g.Avatar = p.Avatar
    /\ g.AvatarSet = p.AvatarSet
    /\ g.Displayname = p.Displayname
    /\ g.NameQuality = p.NameQuality
    /\ g.NameSet = p.NameSet
    /\ g.CustomMXID = p.CustomMXID
    /\ g.AccessToken = p.AccessToken
    /\ g.NextBatch = p.NextBatch
    /\ g.EnablePresence = p.EnablePresence
    /\ g.EnableReceipts = p.EnableReceipts

C5_NonUserInsertIsNoOp ==
    [][\A c \in SeqCallers :
         (Holds(c) /\ Insert(c))
            => (rec[c][1].JID.Server # DefaultUserServer
                  => /\ db' = db
                     /\ call'[c].stmts = <<>>
                     /\ (rec[c][1].JID.User \notin DOMAIN db
                           => QueryGet(db', rec[c][1].JID) = Nil))]_vars

\* C5, the case: Insert returned for a group identifier whose local-part has
\* no row, and Get for it returns nil.
C5_Witness ==
    \E c \in SeqCallers :
        /\ Holds(c) /\ call[c].op = "Insert" /\ Executed(c, <<>>)
        /\ rec[c][1].JID = NewJID(User, GroupServer)
        /\ QueryGet(db, rec[c][1].JID) = Nil

\* C6: no write method changes a row on behalf of a record whose domain is
\* not the default domain, Insert, Update and UpdateActivityTs alike.
C6_NonUserNeverWrites ==
    [][\A c \in SeqCallers :
         (/\ Holds(c)
          /\ \/ Insert(c)
             \/ Update(c)
             \/ \E ts \in Times : UpdateActivityTs(c, ts))
            => (rec[c][1].JID.Server # DefaultUserServer => db' = db)]_vars

\* C7: what GetAllWithCustomMXID returns is what GetAll returns, restricted
\* to the records whose CustomMXID is not empty.
C7_LinkedSubset ==
    /\ QueryGetAllWithCustomMXID(db) = {p \in QueryGetAll(db) : p.CustomMXID # ""}
    /\ \A c \in SeqCallers :
         (call[c].op = "GetAllWithCustomMXID" /\ ~call[c].stmts[1].err)
            => call[c].ret = {p \in QueryGetAll(db) : p.CustomMXID # ""}

\* C7, the case: the table holds a row with a NULL custom_mxid and a row
\* with a set one, and GetAllWithCustomMXID returned just the second.
C7_Witness ==
    \E c \in SeqCallers :
        /\ call[c].op = "GetAllWithCustomMXID"
        /\ Cardinality(call[c].ret) = 1
        /\ Cardinality(QueryGetAll(db)) = 2
        /\ \E u \in DOMAIN db : ~db[u].custom_mxid.Valid

\* C8: over the calls of Insert, Update and UpdateActivityTs on a record,
\* one after the other, its LastActivityTs never decreases.
C8_LastActivityMonotonic ==
    [][\A c \in SeqCallers :
         (/\ Holds(c)
          /\ \/ Insert(c)
             \/ Update(c)
             \/ \E ts \in Times : UpdateActivityTs(c, ts))
            => rec'[c][1].LastActivityTs >= rec[c][1].LastActivityTs]_vars

\* C8, the case: a call with a timestamp below the record's has returned.
C8_Witness ==
    \E c \in SeqCallers :
        /\ Holds(c) /\ ActivityFrame(c)
        /\ call[c].ts < rec[c][1].LastActivityTs
        /\ rec[c][1].LastActivityTs = MaxTs

\* C9: the two statements of UpdateActivityTs fail apart from each other.
\* When the last_activity_ts statement fails the record keeps the new
\* LastActivityTs and, if FirstActivityTs was 0, takes the timestamp there
\* too and goes on to the conditional statement; when that one fails the
\* record and the rows stay as they are and the call returns.
C9_FailuresIndependent ==
    [][\A c \in Callers :
         /\ (/\ pc[c] = "exec_last"
             /\ call'[c].stmts =
                  Append(call[c].stmts, Stmt("update_last_activity", TRUE)))
               => /\ rec'[c][1].LastActivityTs = call[c].ts
                  /\ db' = db
                  /\ IF rec[c][1].FirstActivityTs = 0
                     THEN /\ pc'[c] = "exec_first"
                          /\ rec'[c][1].FirstActivityTs = call[c].ts
                     ELSE pc'[c] = "idle" /\ rec' = rec
         /\ (/\ pc[c] = "exec_first"
             /\ call'[c].stmts =
                  Append(call[c].stmts, Stmt("update_first_activity", TRUE)))
               => /\ rec' = rec
                  /\ db' = db
                  /\ pc'[c] = "idle"]_vars

\* C9, the case: one call lost its first statement and committed the second,
\* another committed its first statement and lost the second.
C9_Witness ==
    \E c, e \in Callers :
        /\ Idle(c) /\ Holds(c) /\ ActivityFrame(c)
        /\ Executed(c, <<Stmt("update_last_activity", TRUE),
                         Stmt("update_first_activity", FALSE)>>)
        /\ rec[c][1].LastActivityTs = call[c].ts
        /\ db[User].first_activity_ts = NotNull(call[c].ts)
        /\ Idle(e) /\ Holds(e) /\ ActivityFrame(e)
        /\ Executed(e, <<Stmt("update_last_activity", FALSE),
                         Stmt("update_first_activity", TRUE)>>)
        /\ rec[e][1].FirstActivityTs = call[e].ts
        /\ db[User].last_activity_ts = NotNull(call[e].ts)

\* C10: in every row whose first_activity_ts and last_activity_ts are set,
\* first_activity_ts <= last_activity_ts.
C10_WindowWellFormed ==
    \A u \in DOMAIN db :
        (db[u].first_activity_ts.Valid /\ db[u].last_activity_ts.Valid)
            => db[u].first_activity_ts.V <= db[u].last_activity_ts.V

====
